---- MODULE Spec2Model ----
(***************************************************************************)
(* The OPT3001 ambient-light-sensor driver (src/opt3001.py) as a state     *)
(* machine: one OPT3001 handle, the busio.I2C bus it locks, and the device *)
(* behind the bus (six 16-bit registers and a register pointer).           *)
(*                                                                         *)
(* Every bus interaction of the driver (try_lock, a transfer, unlock, a    *)
(* sleep) is one step; the Python code between two bus interactions (the   *)
(* returns, the calls, the comparisons) runs inside the step that ends     *)
(* the earlier interaction.                                                *)
(*                                                                         *)
(* Time is counted in ticks of 10 ms (the poll sleep of single_shot).      *)
(* Lux values are integers: hundredths of a lux.                           *)
(***************************************************************************)
EXTENDS Integers, Sequences, FiniteSets, TLC

VARIABLES
    handle,          \* "none" | "ready": does the caller hold an OPT3001 object
    stack,           \* the driver's call stack: frames [fn, pc], innermost last
    register,        \* argument `register` of the running register primitive
    value,           \* argument `value` of the running _write_register
    exc,             \* exception travelling through a try/finally ("none" if none)
    manufacturer_id, \* local of check_device_id
    start,           \* local of single_shot
    buffer,          \* self._buffer, two bytes
    lock,            \* owner of the I2C lock: "free" | "self" | "other"
    regs,            \* device registers
    ptr,             \* device register pointer (set by the first byte written)
    loopback,        \* TRUE: a plain loopback device; FALSE: OPT3001 register semantics
    now,             \* time.monotonic(), in ticks
    call,            \* the API call in progress: [fn, args]
    outcome,         \* how the last API call ended: [fn, args, status, value]
    trace,           \* bus transfers attempted by the API call, in order
    checked,         \* what check_device_id last returned in the API call
    last_write,      \* <<reg, value>> of a successful _write_register that the
                     \* running or just finished _read_register directly follows
    peer             \* a second OPT3001 object on the same bus, at another
                     \* address: its running primitive, its buffer, its device

vars == <<handle, stack, register, value, exc, manufacturer_id, start, buffer,
          lock, regs, ptr, loopback, now, call, outcome, trace, checked,
          last_write, peer>>

\* everything but the lock and the second object
driver_vars ==
    <<handle, stack, register, value, exc, manufacturer_id, start, buffer,
      regs, ptr, loopback, now, call, outcome, trace, checked, last_write>>

----------------------------------------------------------------------------
(* Module constants of src/opt3001.py *)

_REG_RESULT == 0
_REG_CONFIG == 1
_REG_LOW_LIMIT == 2
_REG_HIGH_LIMIT == 3
_REG_MANUFACTURER_ID == 126
_REG_DEVICE_ID == 127

_CONFIG_CT == 2048
_CONFIG_OVF == 256
_CONFIG_CRF == 128
_CONFIG_FH == 64
_CONFIG_FL == 32

MODE_SHUTDOWN == 0
MODE_SINGLE_SHOT == 1
MODE_CONTINUOUS == 2

CONVERSION_100MS == 0
CONVERSION_800MS == 1

_MANUFACTURER_ID == 21577
_DEVICE_ID == 12289

\* single_shot: timeout = 1.0 s and time.sleep(0.01), in ticks of 10 ms
timeout == 100
POLL_SLEEP == 1

----------------------------------------------------------------------------
(* Bounds of the model *)

\* a sleep may last up to this many ticks longer than asked
MaxOversleep == 1
\* the monotonic clock reads 0..MaxEpoch when single_shot is entered
MaxEpoch == 1

----------------------------------------------------------------------------
(* Python integer operators on non-negative integers *)

RECURSIVE BitAnd(_, _)
BitAnd(a, b) ==
    IF a = 0 \/ b = 0 THEN 0
    ELSE (a % 2) * (b % 2) + 2 * BitAnd(a \div 2, b \div 2)

RECURSIVE BitOr(_, _)
BitOr(a, b) ==
    IF a = 0 THEN b
    ELSE IF b = 0 THEN a
    ELSE (IF a % 2 = 1 \/ b % 2 = 1 THEN 1 ELSE 0) + 2 * BitOr(a \div 2, b \div 2)

Shl(a, n) == a * (2 ^ n)
Shr(a, n) == a \div (2 ^ n)

Word == 2 ^ 16 - 1

----------------------------------------------------------------------------
(* The device behind the bus *)

Regs == {_REG_RESULT, _REG_CONFIG, _REG_LOW_LIMIT, _REG_HIGH_LIMIT,
         _REG_MANUFACTURER_ID, _REG_DEVICE_ID}

RWRegs == {_REG_CONFIG, _REG_LOW_LIMIT, _REG_HIGH_LIMIT}

\* the read-only flag bits of the configuration register
ConfigReadOnly == _CONFIG_OVF + _CONFIG_CRF + _CONFIG_FH + _CONFIG_FL

\* the bits of register r a bus write changes
WritableMask(lb, r) ==
    IF r \notin RWRegs THEN 0
    ELSE IF r = _REG_CONFIG /\ ~lb THEN Word - ConfigReadOnly
    ELSE Word

\* the registers after the bus wrote word w to register r
DevWrite(lb, rs, r, w) ==
    LET m == WritableMask(lb, r)
    IN  [rs EXCEPT ![r] = BitOr(BitAnd(w, m), BitAnd(rs[r], Word - m))]

\* the registers after the bus read register r: the OPT3001 clears the
\* conversion-ready flag when the configuration register is read
DevRead(lb, rs, r) ==
    IF r = _REG_CONFIG /\ ~lb
    THEN [rs EXCEPT ![r] = BitAnd(rs[r], Word - _CONFIG_CRF)]
    ELSE rs

\* what the ID registers of the wired device may read
ManufacturerIdReadings == {_MANUFACTURER_ID, Word}
DeviceIdReadings == {_DEVICE_ID, _DEVICE_ID + 1}

\* results a conversion may produce: 1.00 lux (e=0, m=100) and e=11, m=1
ConversionResults == {100, 45057}

\* register contents at power-on, the ID registers as wired
PowerOn(mid, did) ==
    [r \in Regs |->
        CASE r = _REG_RESULT -> 0
          [] r = _REG_CONFIG -> 51216
          [] r = _REG_LOW_LIMIT -> 49152
          [] r = _REG_HIGH_LIMIT -> 49151
          [] r = _REG_MANUFACTURER_ID -> mid
          [] r = _REG_DEVICE_ID -> did]

----------------------------------------------------------------------------
(* The bus-transfer record kept in `trace` *)

\* kind: "writeto" | "readfrom"; out: bytes written; word: the 16 bits read
\* (0 for a pure write); ok: the transfer succeeded; locked: the handle held
\* the lock; n: 1, or 2 for "the same transfer two or more times in a row"
Xfer(kind, out, word, ok) ==
    [kind |-> kind, out |-> out, word |-> word, ok |-> ok,
     locked |-> (lock = "self"), n |-> 1]

Log(tr, x) ==
    IF tr # <<>> /\ [tr[Len(tr)] EXCEPT !.n = 1] = x
    THEN [tr EXCEPT ![Len(tr)] = [@ EXCEPT !.n = 2]]
    ELSE Append(tr, x)

----------------------------------------------------------------------------
(* The driver.  A snapshot d of the driver's own state is a record; the    *)
(* code between two bus interactions maps a snapshot to a snapshot.        *)

NoCall == [fn |-> "none", args |-> <<>>]
NoOutcome ==
    [fn |-> "none", args |-> <<>>, status |-> "none", value |-> 0, late |-> FALSE]

Driver ==
    [handle |-> handle, stack |-> stack, register |-> register, value |-> value,
     manufacturer_id |-> manufacturer_id, start |-> start, buffer |-> buffer,
     now |-> now, call |-> call, outcome |-> outcome, checked |-> checked]

Install(d) ==
    /\ handle' = d.handle
    /\ stack' = d.stack
    /\ register' = d.register
    /\ value' = d.value
    /\ manufacturer_id' = d.manufacturer_id
    /\ start' = d.start
    /\ buffer' = d.buffer
    /\ now' = d.now
    /\ call' = d.call
    /\ outcome' = d.outcome
    /\ checked' = d.checked

Frame(f, p) == [fn |-> f, pc |-> p]
Top(d) == d.stack[Len(d.stack)]
Pop(d) == [d EXCEPT !.stack = SubSeq(@, 1, Len(@) - 1)]
Push(d, f, p) == [d EXCEPT !.stack = Append(@, Frame(f, p))]
At(d, p) == [d EXCEPT !.stack[Len(d.stack)].pc = p]

\* self._buffer[0] = (value >> 8) & 0xFF; self._buffer[1] = value & 0xFF
ValueBytes(v) == <<BitAnd(Shr(v, 8), 255), BitAnd(v, 255)>>

\* (self._buffer[0] << 8) | self._buffer[1]
BufferWord(b) == BitOr(Shl(b[1], 8), b[2])

\* _write_register up to its first try_lock
_write_register(d, reg, v) ==
    [Push(d, "_write_register", "lock")
        EXCEPT !.register = reg, !.value = v, !.buffer = ValueBytes(v)]

\* _read_register up to its first try_lock
_read_register(d, reg) ==
    [Push(d, "_read_register", "lock") EXCEPT !.register = reg]

\* check_device_id up to the first bus interaction
check_device_id(d) ==
    _read_register(Push(d, "check_device_id", "manufacturer_id"),
                   _REG_MANUFACTURER_ID)

\* a check that forgets the device ID
IdsMatch_ManufacturerOnly(mid, did) == mid = _MANUFACTURER_ID

\* manufacturer_id == _MANUFACTURER_ID and device_id == _DEVICE_ID
IdsMatch(mid, did) == mid = _MANUFACTURER_ID /\ did = _DEVICE_ID

\* the configuration word configure builds
ConfigWord(mode, conversion_time, range_auto) ==
    LET config0 == IF range_auto THEN 49152 ELSE 0
        config1 == IF conversion_time = CONVERSION_800MS
                   THEN BitOr(config0, _CONFIG_CT) ELSE config0
    IN  BitOr(config1, Shl(mode, 9))

\* configure up to the first bus interaction
configure(d, mode, conversion_time, range_auto) ==
    _write_register(Push(d, "configure", "write"), _REG_CONFIG,
                    ConfigWord(mode, conversion_time, range_auto))

\* a read_raw that first triggers a conversion
read_raw_Triggering(d) ==
    configure(Push(d, "read_raw", "read"), MODE_SINGLE_SHOT, CONVERSION_800MS, TRUE)

\* read_raw, read_lux, is_conversion_ready up to the first bus interaction
read_raw(d) == _read_register(Push(d, "read_raw", "read"), _REG_RESULT)
read_lux(d) == read_raw(Push(d, "read_lux", "read_raw"))
is_conversion_ready(d) ==
    _read_register(Push(d, "is_conversion_ready", "read"), _REG_CONFIG)

\* _lux_to_raw.  A lux value is an integer number of hundredths of a lux, so
\* that lux / (0.01 * (2 ** exp)) is c / 2^exp and int() of it, for c >= 0,
\* the integer quotient.
MANTISSA_MAX == 4095
EXPONENTS == 12

\* a mantissa rounded to the nearest integer
Mantissa_Rounded(c, exp) == (c + (2 ^ exp) \div 2) \div (2 ^ exp)

\* mantissa = int(lux / (0.01 * (2 ** exp)))
Mantissa(c, exp) == c \div (2 ^ exp)

\* tests of the mantissa against other limits
Fits_OffByOne(m) == m <= MANTISSA_MAX + 1
Fits_Strict(m) == m < MANTISSA_MAX
Fits_11bit(m) == m <= MANTISSA_MAX \div 2

\* if mantissa <= 4095
Fits(m) == m <= MANTISSA_MAX

\* the loop for exp in range(12), from exp on; after it, return 11, 4095
RECURSIVE LuxToRawFrom(_, _)
LuxToRawFrom(c, exp) ==
    IF exp >= EXPONENTS THEN <<11, 4095>>
    ELSE IF Fits(Mantissa(c, exp)) THEN <<exp, Mantissa(c, exp)>>
    ELSE LuxToRawFrom(c, exp + 1)

_lux_to_raw(c) == LuxToRawFrom(c, 0)

\* raw = (exponent << 12) | mantissa
LimitWord(em) == BitOr(Shl(em[1], 12), em[2])

\* set_low_limit, set_high_limit up to the first bus interaction
set_low_limit(d, c) ==
    _write_register(Push(d, "set_low_limit", "write"), _REG_LOW_LIMIT,
                    LimitWord(_lux_to_raw(c)))

set_high_limit(d, c) ==
    _write_register(Push(d, "set_high_limit", "write"), _REG_HIGH_LIMIT,
                    LimitWord(_lux_to_raw(c)))

\* the lux property: return self.read_lux()
lux(d) == read_lux(Push(d, "lux", "read_lux"))

\* exponent = (raw >> 12) & 0x0F; mantissa = raw & 0x0FFF
RawFields(raw) == <<BitAnd(Shr(raw, 12), 15), BitAnd(raw, 4095)>>

\* lux = 0.01 * (2 ** exponent) * mantissa, in hundredths of a lux
Lux(em) == (2 ^ em[1]) * em[2]

\* bool(config & _CONFIG_CRF)
ReadyFlag(config) == BitAnd(config, _CONFIG_CRF) # 0

\* a timeout test that fires once the budget is reached, not exceeded
TimedOut_NotStrict(t, t0) == t - t0 >= timeout

\* a timeout measured from the clock's zero, not from `start`
TimedOut_FromZero(t, t0) == t > timeout

\* time.monotonic() - start > timeout
TimedOut(t, t0) == t - t0 > timeout

\* single_shot up to the first bus interaction: configure(mode=MODE_SINGLE_SHOT)
single_shot(d) ==
    configure(Push(d, "single_shot", "configure"),
              MODE_SINGLE_SHOT, CONVERSION_800MS, TRUE)

\* __init__ up to the first bus interaction
__init__(d) ==
    check_device_id(Push([d EXCEPT !.buffer = <<0, 0>>], "__init__", "check"))

\* the API call ends: the caller sees status (and value, when status = "ok");
\* late: more than `timeout` ticks passed since single_shot took `start`
Finish(d, status, v) ==
    [d EXCEPT !.outcome = [fn |-> d.call.fn, args |-> d.call.args,
                           status |-> status, value |-> v,
                           late |-> (d.now - d.start > timeout)],
              !.handle = IF d.call.fn = "__init__"
                         THEN (IF status = "ok" THEN "ready" ELSE "none")
                         ELSE @,
              !.call = NoCall,
              !.register = 0, !.value = 0, !.manufacturer_id = 0,
              !.start = 0, !.now = 0]

\* a constructor that ignores what check_device_id returned
InitAfterCheck_Ignored(d, ok) == [next |-> "configure", d |-> At(d, "configure")]

\* __init__ goes on after check_device_id returned ok
InitAfterCheck(d, ok) ==
    IF ok
    THEN [next |-> "configure", d |-> At(d, "configure")]
    ELSE [next |-> "raise", d |-> d]

\* a poll that swallows bus errors too
Catches_PollToo(fn) == fn \in {"check_device_id", "is_conversion_ready"}

\* a frame catches the exception its callee raised: check_device_id's
\* `except Exception: return False`
Catches(fn) == fn = "check_device_id"

RECURSIVE Return(_, _), Raise(_, _)

\* the innermost frame returns v: run the callers up to the next bus
\* interaction or to the end of the API call
Return(d, v) ==
    LET c == Pop(d) IN
    IF c.stack = <<>> THEN Finish(c, "ok", v)
    ELSE LET f == Top(c) IN
      CASE f.fn = "check_device_id" /\ f.pc = "manufacturer_id" ->
             _read_register(At([c EXCEPT !.manufacturer_id = v], "device_id"),
                            _REG_DEVICE_ID)
        [] f.fn = "check_device_id" /\ f.pc = "device_id" ->
             LET ok == IdsMatch(c.manufacturer_id, v) IN
             Return([c EXCEPT !.checked = IF ok THEN "true" ELSE "false"], ok)
        [] f.fn = "__init__" /\ f.pc = "check" ->
             LET a == InitAfterCheck(c, v) IN
             IF a.next = "configure"
             THEN configure(a.d, MODE_CONTINUOUS, CONVERSION_800MS, TRUE)
             ELSE Raise(a.d, "SetupError")
        [] f.fn = "__init__" /\ f.pc = "configure" -> At(c, "sleep")
        [] f.fn = "configure" -> Return(c, 0)
        [] f.fn = "read_raw" -> Return(c, RawFields(v))
        [] f.fn = "read_lux" -> Return(c, Lux(v))
        [] f.fn = "is_conversion_ready" -> Return(c, ReadyFlag(v))
        [] f.fn = "single_shot" /\ f.pc = "configure" ->
             is_conversion_ready(At([c EXCEPT !.start = c.now], "poll"))
        [] f.fn = "single_shot" /\ f.pc = "poll" ->
             IF v THEN read_lux(At(c, "read_lux"))
             ELSE IF TimedOut(c.now, c.start) THEN Raise(c, "TimeoutError")
             ELSE At(c, "sleep")
        [] f.fn = "single_shot" /\ f.pc = "read_lux" -> Return(c, v)
        [] f.fn = "lux" -> Return(c, v)
        [] f.fn \in {"set_low_limit", "set_high_limit"} -> Return(c, 0)

\* the innermost frame raises e
Raise(d, e) ==
    LET c == Pop(d) IN
    IF c.stack = <<>> THEN Finish(c, e, 0)
    ELSE IF Catches(Top(c).fn)
         THEN Return([c EXCEPT !.checked = "false"], FALSE)
    ELSE Raise(c, e)

----------------------------------------------------------------------------
(* Initial state: the device is wired and powered, no handle exists yet *)

\* the second object as its own successful construction leaves it: the last
\* transfer was the write to its configuration register, which holds the
\* word that the probe read of line 88 fetched from the device-ID register
PeerConstructed ==
    [pc |-> "idle", fn |-> "none", register |-> 0, value |-> 0,
     buffer |-> ValueBytes(_DEVICE_ID), exc |-> "none", result |-> 0,
     held |-> TRUE,
     regs |-> DevWrite(FALSE, PowerOn(_MANUFACTURER_ID, _DEVICE_ID),
                       _REG_CONFIG, _DEVICE_ID),
     ptr |-> _REG_CONFIG]

Init ==
    /\ peer = PeerConstructed
    /\ handle = "none"
    /\ stack = <<>>
    /\ register = 0
    /\ value = 0
    /\ exc = "none"
    /\ manufacturer_id = 0
    /\ start = 0
    /\ buffer = <<0, 0>>
    /\ lock = "free"
    /\ \E mid \in ManufacturerIdReadings, did \in DeviceIdReadings :
          regs = PowerOn(mid, did)
    /\ ptr = _REG_RESULT
    /\ loopback = FALSE
    /\ now = 0
    /\ call = NoCall
    /\ outcome = NoOutcome
    /\ trace = <<>>
    /\ checked = "none"
    /\ last_write = <<>>

----------------------------------------------------------------------------
(* API calls *)

Idle == stack = <<>>
InFrame(fn, pc) == stack # <<>> /\ stack[Len(stack)] = Frame(fn, pc)

\* between a try_lock that returned True and the unlock of the finally block
InPrimitive ==
    /\ stack # <<>>
    /\ stack[Len(stack)].fn \in {"_write_register", "_read_register"}
    /\ stack[Len(stack)].pc \in {"probe", "write", "transfer", "unlock"}

\* the caller starts API call fn(args); enter(d) is the code up to the
\* first bus interaction
Begin(fn, args, d) ==
    /\ Install([d EXCEPT !.call = [fn |-> fn, args |-> args],
                         !.outcome = NoOutcome, !.checked = "none"])
    /\ trace' = <<>>
    /\ last_write' = IF fn = "_read_register"
                        /\ outcome.fn = "_write_register"
                        /\ outcome.status = "ok"
                     THEN outcome.args ELSE <<>>
    /\ UNCHANGED <<peer, exc, lock, regs, ptr, loopback>>

WriteValues == {4660, 52224}

Construct ==
    /\ Idle /\ handle = "none"
    /\ Begin("__init__", <<>>, __init__(Driver))

CallWriteRegister ==
    /\ Idle /\ handle = "ready"
    /\ \E reg \in RWRegs, v \in WriteValues :
          Begin("_write_register", <<reg, v>>, _write_register(Driver, reg, v))

CallReadRegister ==
    /\ Idle /\ handle = "ready"
    /\ \E reg \in Regs :
          Begin("_read_register", <<reg>>, _read_register(Driver, reg))

CallCheckDeviceId ==
    /\ Idle /\ handle = "ready"
    /\ Begin("check_device_id", <<>>, check_device_id(Driver))

CallConfigure ==
    /\ Idle /\ handle = "ready"
    /\ \E mode \in {MODE_SHUTDOWN, MODE_SINGLE_SHOT, MODE_CONTINUOUS},
          ct \in {CONVERSION_100MS, CONVERSION_800MS},
          ra \in BOOLEAN :
          Begin("configure", <<mode, ct, ra>>, configure(Driver, mode, ct, ra))

CallReadRaw ==
    /\ Idle /\ handle = "ready"
    /\ Begin("read_raw", <<>>, read_raw(Driver))

CallReadLux ==
    /\ Idle /\ handle = "ready"
    /\ Begin("read_lux", <<>>, read_lux(Driver))

CallLux ==
    /\ Idle /\ handle = "ready"
    /\ Begin("lux", <<>>, lux(Driver))

CallIsConversionReady ==
    /\ Idle /\ handle = "ready"
    /\ Begin("is_conversion_ready", <<>>, is_conversion_ready(Driver))

\* limits of 50 lux and 1000 lux, in hundredths
LimitValues == {5000, 100000}

CallSetLowLimit ==
    /\ Idle /\ handle = "ready"
    /\ \E c \in LimitValues :
          Begin("set_low_limit", <<c>>, set_low_limit(Driver, c))

CallSetHighLimit ==
    /\ Idle /\ handle = "ready"
    /\ \E c \in LimitValues :
          Begin("set_high_limit", <<c>>, set_high_limit(Driver, c))

CallSingleShot ==
    /\ Idle /\ handle = "ready"
    /\ \E t \in 0..MaxEpoch :
          Begin("single_shot", <<>>, single_shot([Driver EXCEPT !.now = t]))

----------------------------------------------------------------------------
(* Steps of the register primitives *)

\* while not self.i2c.try_lock(): the lock is free and is taken
\* a lock taken without looking at what try_lock returned
Granted_Unchecked(l) == TRUE

\* i2c.try_lock() returns True, and takes the lock, only when nobody holds it
Granted(l) == l = "free"

TryLock ==
    /\ stack # <<>> /\ stack[Len(stack)].pc = "lock"
    /\ Granted(lock)
    /\ lock' = "self"
    /\ stack' = [stack EXCEPT ![Len(stack)].pc =
                    IF stack[Len(stack)].fn = "_write_register"
                    THEN "probe" ELSE "transfer"]
    /\ UNCHANGED <<peer, handle, register, value, exc, manufacturer_id, start, buffer,
                   regs, ptr, loopback, now, call, outcome, trace, checked, last_write>>

\* while not self.i2c.try_lock(): pass  -- the lock is held by another user
TryLockBusy ==
    /\ stack # <<>> /\ stack[Len(stack)].pc = "lock"
    /\ ~Granted(lock)
    /\ UNCHANGED vars

\* a transfer raises OSError: on to the finally block
TransferFails(x) ==
    /\ exc' = "OSError"
    /\ stack' = [stack EXCEPT ![Len(stack)].pc = "unlock"]
    /\ trace' = Log(trace, x)
    /\ UNCHANGED <<peer, handle, register, value, manufacturer_id, start, buffer,
                   lock, regs, ptr, loopback, now, call, outcome, checked, last_write>>

\* _write_register line 88: writeto_then_readfrom(address, bytes([register]),
\* self._buffer, out_end=0, in_start=0) writes no byte and reads two bytes
\* of the register the device's pointer names into self._buffer
WriteProbe ==
    /\ InFrame("_write_register", "probe")
    /\ buffer' = ValueBytes(regs[ptr])
    /\ regs' = DevRead(loopback, regs, ptr)
    /\ trace' = Log(trace, Xfer("readfrom", <<>>, regs[ptr], TRUE))
    /\ stack' = [stack EXCEPT ![Len(stack)].pc = "write"]
    /\ UNCHANGED <<peer, handle, register, value, exc, manufacturer_id, start,
                   lock, ptr, loopback, now, call, outcome, checked, last_write>>

WriteProbeFails ==
    /\ InFrame("_write_register", "probe")
    /\ TransferFails(Xfer("readfrom", <<>>, 0, FALSE))

\* the bytes of _write_register's writeto (line 89)
WriteBytes(reg, b) == <<reg, b[1], b[2]>>

\* _write_register line 89: writeto(address, bytes([register, buffer[0], buffer[1]]))
WriteTo ==
    /\ InFrame("_write_register", "write")
    /\ LET out == WriteBytes(register, buffer) IN
         /\ ptr' = out[1]
         /\ regs' = DevWrite(loopback, regs, out[1], BitOr(Shl(out[2], 8), out[3]))
         /\ trace' = Log(trace, Xfer("writeto", out, 0, TRUE))
    /\ stack' = [stack EXCEPT ![Len(stack)].pc = "unlock"]
    /\ UNCHANGED <<peer, handle, register, value, exc, manufacturer_id, start, buffer,
                   lock, loopback, now, call, outcome, checked, last_write>>

WriteToFails ==
    /\ InFrame("_write_register", "write")
    /\ TransferFails(Xfer("writeto", WriteBytes(register, buffer), 0, FALSE))

\* _read_register lines 98-102: write the register byte, read two bytes
ReadTransfer ==
    /\ InFrame("_read_register", "transfer")
    /\ ptr' = register
    /\ buffer' = ValueBytes(regs[register])
    /\ regs' = DevRead(loopback, regs, register)
    /\ trace' = Log(trace, Xfer("readfrom", <<register>>, regs[register], TRUE))
    /\ stack' = [stack EXCEPT ![Len(stack)].pc = "unlock"]
    /\ UNCHANGED <<peer, handle, register, value, exc, manufacturer_id, start,
                   lock, loopback, now, call, outcome, checked, last_write>>

ReadTransferFails ==
    /\ InFrame("_read_register", "transfer")
    /\ TransferFails(Xfer("readfrom", <<register>>, 0, FALSE))

\* a finally block that is skipped when the transfer raised
FinallyUnlock_OnSuccessOnly(l, e) == IF e = "none" THEN "free" ELSE l

\* finally: self.i2c.unlock()
FinallyUnlock(l, e) == "free"

\* an except clause that swallows the error of the transfer
Reraises_Swallowed(e) == FALSE

\* try/finally has no except clause: the exception of the transfer goes on
\* to the caller once the finally block has run
Reraises(e) == e # "none"

\* what the primitive returns once unlocked
PrimitiveResult(fn, b) == IF fn = "_read_register" THEN BufferWord(b) ELSE 0

\* the finally block, then the return or the re-raise, then the callers' code
Unlock ==
    /\ stack # <<>> /\ stack[Len(stack)].pc = "unlock"
    /\ lock' = FinallyUnlock(lock, exc)
    /\ exc' = "none"
    /\ Install(IF Reraises(exc)
               THEN Raise(Driver, exc)
               ELSE Return(Driver, PrimitiveResult(stack[Len(stack)].fn, buffer)))
    /\ UNCHANGED <<peer, regs, ptr, loopback, trace, last_write>>

----------------------------------------------------------------------------
(* Sleeps *)

\* single_shot: time.sleep(0.01), then the next is_conversion_ready()
PollSleep ==
    /\ InFrame("single_shot", "sleep")
    /\ \E d \in POLL_SLEEP..(POLL_SLEEP + MaxOversleep) :
          Install(is_conversion_ready(At([Driver EXCEPT !.now = now + d], "poll")))
    /\ UNCHANGED <<peer, exc, lock, regs, ptr, loopback, trace, last_write>>

\* __init__: time.sleep(1.0), then the constructor returns
InitSleep ==
    /\ InFrame("__init__", "sleep")
    /\ Install(Return(Driver, 0))
    /\ UNCHANGED <<peer, exc, lock, regs, ptr, loopback, trace, last_write>>

----------------------------------------------------------------------------
(* The environment: the sensor converts; another bus user takes the lock *)

\* a conversion ends: new result, conversion-ready flag set
DeviceConverts ==
    /\ ~loopback
    /\ \E r \in ConversionResults :
          regs' = [regs EXCEPT ![_REG_RESULT] = r,
                               ![_REG_CONFIG] = BitOr(@, _CONFIG_CRF)]
    /\ UNCHANGED <<peer, handle, stack, register, value, exc, manufacturer_id, start,
                   buffer, lock, ptr, loopback, now, call, outcome, trace,
                   checked, last_write>>

OtherLocks ==
    /\ lock = "free"
    /\ lock' = "other"
    /\ UNCHANGED <<peer, handle, stack, register, value, exc, manufacturer_id, start,
                   buffer, regs, ptr, loopback, now, call, outcome, trace,
                   checked, last_write>>

OtherUnlocks ==
    /\ lock = "other"
    /\ lock' = "free"
    /\ UNCHANGED <<peer, handle, stack, register, value, exc, manufacturer_id, start,
                   buffer, regs, ptr, loopback, now, call, outcome, trace,
                   checked, last_write>>

----------------------------------------------------------------------------

(* The caller sets the limit registers of a constructed object, and reads
   results in between *)

NextLimits ==
    \/ Construct
    \/ CallSetLowLimit
    \/ CallSetHighLimit
    \/ CallReadRaw
    \/ TryLock
    \/ WriteProbe
    \/ WriteProbeFails
    \/ WriteTo
    \/ WriteToFails
    \/ ReadTransfer
    \/ ReadTransferFails
    \/ Unlock
    \/ InitSleep
    \/ DeviceConverts

SpecLimits == Init /\ [][NextLimits]_vars

----------------------------------------------------------------------------
(* _lux_to_raw on its own: the arguments, in hundredths of a lux, are every
   value up to DenseLux, the values around each change of exponent, 1000 lux,
   and values from the largest encodable one up to LuxTop *)

DenseLux == 10000
LuxTop == 10000000
LuxInputs ==
    (0..DenseLux)
    \cup {m * (2 ^ e) + j : m \in {MANTISSA_MAX, MANTISSA_MAX + 1},
                            e \in 0..EXPONENTS, j \in {-1, 0, 1}}
    \cup {100000, LuxTop}

\* a constructed object whose caller has just called _lux_to_raw(c)
InitEncode ==
    /\ peer = PeerConstructed
    /\ handle = "ready"
    /\ stack = <<>>
    /\ register = 0
    /\ value = 0
    /\ exc = "none"
    /\ manufacturer_id = 0
    /\ start = 0
    /\ buffer = ValueBytes(_DEVICE_ID)
    /\ lock = "free"
    /\ regs = DevWrite(FALSE, PowerOn(_MANUFACTURER_ID, _DEVICE_ID),
                       _REG_CONFIG, _DEVICE_ID)
    /\ ptr = _REG_CONFIG
    /\ loopback = FALSE
    /\ now = 0
    /\ \E c \in LuxInputs : call = [fn |-> "_lux_to_raw", args |-> <<c>>]
    /\ outcome = NoOutcome
    /\ trace = <<>>
    /\ checked = "none"
    /\ last_write = <<>>

\* _lux_to_raw runs to its return: it touches neither the object nor the bus
LuxToRaw ==
    /\ call.fn = "_lux_to_raw"
    /\ outcome' = [fn |-> call.fn, args |-> call.args, status |-> "ok",
                   value |-> _lux_to_raw(call.args[1]), late |-> FALSE]
    /\ call' = NoCall
    /\ UNCHANGED <<peer, handle, stack, register, value, exc, manufacturer_id,
                   start, buffer, lock, regs, ptr, loopback, now, trace,
                   checked, last_write>>

NextEncode == LuxToRaw

SpecEncode == InitEncode /\ [][NextEncode]_vars

----------------------------------------------------------------------------
(* The second object runs the same register primitives on its own device *)

PeerRegs == {_REG_CONFIG, _REG_LOW_LIMIT}
PeerInFrame(fn, pc) == peer.fn = fn /\ peer.pc = pc

\* _write_register lines 82-86 of the second object
PeerCallWriteRegister ==
    /\ peer.pc = "idle"
    /\ \E reg \in PeerRegs, v \in WriteValues :
          peer' = [peer EXCEPT !.pc = "lock", !.fn = "_write_register",
                               !.register = reg, !.value = v,
                               !.buffer = ValueBytes(v), !.held = TRUE]
    /\ UNCHANGED <<lock, driver_vars>>

\* _read_register lines 95-96 of the second object
PeerCallReadRegister ==
    /\ peer.pc = "idle"
    /\ \E reg \in PeerRegs :
          peer' = [peer EXCEPT !.pc = "lock", !.fn = "_read_register",
                               !.register = reg, !.held = TRUE]
    /\ UNCHANGED <<lock, driver_vars>>

PeerTryLock ==
    /\ peer.pc = "lock"
    /\ Granted(lock)
    /\ lock' = "peer"
    /\ peer' = [peer EXCEPT !.pc = IF peer.fn = "_write_register"
                                   THEN "probe" ELSE "transfer"]
    /\ UNCHANGED driver_vars

PeerTryLockBusy ==
    /\ peer.pc = "lock"
    /\ ~Granted(lock)
    /\ UNCHANGED vars

\* is the bus the second object's alone while it makes a transfer
PeerHolds == lock = "peer" /\ ~InPrimitive

PeerWriteProbe ==
    /\ PeerInFrame("_write_register", "probe")
    /\ peer' = [peer EXCEPT !.buffer = ValueBytes(peer.regs[peer.ptr]),
                            !.regs = DevRead(FALSE, peer.regs, peer.ptr),
                            !.held = @ /\ PeerHolds,
                            !.pc = "write"]
    /\ UNCHANGED <<lock, driver_vars>>

PeerWriteTo ==
    /\ PeerInFrame("_write_register", "write")
    /\ LET out == WriteBytes(peer.register, peer.buffer) IN
          peer' = [peer EXCEPT !.ptr = out[1],
                               !.regs = DevWrite(FALSE, peer.regs, out[1],
                                                 BitOr(Shl(out[2], 8), out[3])),
                               !.held = @ /\ PeerHolds,
                               !.pc = "unlock"]
    /\ UNCHANGED <<lock, driver_vars>>

PeerReadTransfer ==
    /\ PeerInFrame("_read_register", "transfer")
    /\ peer' = [peer EXCEPT !.ptr = peer.register,
                            !.buffer = ValueBytes(peer.regs[peer.register]),
                            !.regs = DevRead(FALSE, peer.regs, peer.register),
                            !.held = @ /\ PeerHolds,
                            !.pc = "unlock"]
    /\ UNCHANGED <<lock, driver_vars>>

PeerUnlock ==
    /\ peer.pc = "unlock"
    /\ lock' = FinallyUnlock(lock, peer.exc)
    /\ peer' = [peer EXCEPT !.pc = "idle",
                            !.result = PrimitiveResult(peer.fn, peer.buffer)]
    /\ UNCHANGED driver_vars

PeerStep ==
    \/ PeerCallWriteRegister
    \/ PeerCallReadRegister
    \/ PeerTryLock
    \/ PeerTryLockBusy
    \/ PeerWriteProbe
    \/ PeerWriteTo
    \/ PeerReadTransfer
    \/ PeerUnlock

\* two objects at different addresses share the bus; each runs register
\* operations while the other does
NextTwoHandles ==
    \/ Construct
    \/ CallReadRegister
    \/ CallIsConversionReady
    \/ TryLock
    \/ TryLockBusy
    \/ WriteProbe
    \/ WriteTo
    \/ ReadTransfer
    \/ Unlock
    \/ InitSleep
    \/ PeerStep

SpecTwoHandles == Init /\ [][NextTwoHandles]_vars

----------------------------------------------------------------------------

(* The caller uses the public API of a handle on an OPT3001 *)

Next ==
    \/ Construct
    \/ CallCheckDeviceId
    \/ CallConfigure
    \/ CallReadRaw
    \/ CallReadLux
    \/ CallLux
    \/ CallIsConversionReady
    \/ CallSingleShot
    \/ TryLock
    \/ TryLockBusy
    \/ WriteProbe
    \/ WriteProbeFails
    \/ WriteTo
    \/ WriteToFails
    \/ ReadTransfer
    \/ ReadTransferFails
    \/ Unlock
    \/ PollSleep
    \/ InitSleep
    \/ DeviceConverts
    \/ OtherLocks
    \/ OtherUnlocks

Spec == Init /\ [][Next]_vars

(* The caller uses the register primitives of a handle on a loopback      *)
(* device: the three RW registers keep all 16 bits written, and nothing   *)
(* but a bus write changes a register                                     *)

InitLoopback ==
    /\ peer = PeerConstructed
    /\ handle = "none"
    /\ stack = <<>>
    /\ register = 0
    /\ value = 0
    /\ exc = "none"
    /\ manufacturer_id = 0
    /\ start = 0
    /\ buffer = <<0, 0>>
    /\ lock = "free"
    /\ \E mid \in ManufacturerIdReadings, did \in DeviceIdReadings :
          regs = PowerOn(mid, did)
    /\ ptr = _REG_RESULT
    /\ loopback = TRUE
    /\ now = 0
    /\ call = NoCall
    /\ outcome = NoOutcome
    /\ trace = <<>>
    /\ checked = "none"
    /\ last_write = <<>>

NextRegisters ==
    \/ Construct
    \/ CallWriteRegister
    \/ CallReadRegister
    \/ TryLock
    \/ TryLockBusy
    \/ WriteProbe
    \/ WriteProbeFails
    \/ WriteTo
    \/ WriteToFails
    \/ ReadTransfer
    \/ ReadTransferFails
    \/ Unlock
    \/ InitSleep
    \/ OtherLocks
    \/ OtherUnlocks

SpecRegisters == InitLoopback /\ [][NextRegisters]_vars

(* single_shot on a sensor that never finishes a conversion, on a bus     *)
(* that never fails and that no one else uses; the calling thread keeps   *)
(* running                                                                *)

DriverStep ==
    \/ TryLock
    \/ WriteProbe
    \/ WriteTo
    \/ ReadTransfer
    \/ Unlock
    \/ PollSleep
    \/ InitSleep

NextNeverReady ==
    \/ Construct
    \/ CallSingleShot
    \/ DriverStep

SpecNeverReady == Init /\ [][NextNeverReady]_vars /\ WF_vars(DriverStep)

----------------------------------------------------------------------------
(* Register operations while another user of the bus takes the lock and
   gives it back when it likes, or never; the calling thread itself keeps
   running *)

NextBusBusy ==
    \/ Construct
    \/ CallReadRegister
    \/ CallWriteRegister
    \/ TryLock
    \/ TryLockBusy
    \/ WriteProbe
    \/ WriteTo
    \/ ReadTransfer
    \/ Unlock
    \/ InitSleep
    \/ OtherLocks
    \/ OtherUnlocks

\* the calling thread polls try_lock without pause: when the lock is free
\* again and again, it gets it
SpecBusBusy == Init /\ [][NextBusBusy]_vars /\ SF_vars(DriverStep)


----------------------------------------------------------------------------
(* Claims *)

IsRead(x, reg) == x.kind = "readfrom" /\ x.out = <<reg>>
IsPoll(x) == IsRead(x, 1)
Failed(tr) == \E i \in 1..Len(tr) : ~tr[i].ok

\* both ID reads succeeded and read 0x5449 and 0x3001
IdsVerified(tr) ==
    /\ Len(tr) >= 2
    /\ IsRead(tr[1], 126) /\ tr[1].ok /\ tr[1].word = 21577
    /\ IsRead(tr[2], 127) /\ tr[2].ok /\ tr[2].word = 12289

\* C1: on a loopback device, a _read_register(reg) that directly follows a
\* successful _write_register(reg, v) on an RW register returns exactly v.
C1_WriteReadRoundTrip ==
    (/\ outcome.fn = "_read_register" /\ outcome.status = "ok"
     /\ last_write # <<>> /\ last_write[1] = outcome.args[1])
    => outcome.value = last_write[2]

\* C2: the handle holds the bus lock only inside a register primitive,
\* between its try_lock and its unlock: once the primitive has returned or
\* raised the lock is not held by the handle, and every transfer was issued
\* with the lock held.
C2_LockReleasedOnEveryExit ==
    /\ lock = "self" => InPrimitive
    /\ \A i \in 1..Len(trace) : trace[i].locked

\* C2 witness: an API call ended with the I/O error of a failed transfer and
\* the lock is free again
C2_Witness ==
    /\ outcome.status = "OSError" /\ Failed(trace) /\ stack = <<>> /\ lock = "free"

\* C3: a successful _write_register(reg, value) issued exactly one bus
\* transfer, a write of the bytes reg, value >> 8, value & 0xFF, and no read.
C3_SingleWriteTransaction ==
    (outcome.fn = "_write_register" /\ outcome.status = "ok")
    => /\ Len(trace) = 1
       /\ trace[1].kind = "writeto" /\ trace[1].n = 1
       /\ trace[1].out = <<outcome.args[1],
                            (outcome.args[2] \div 256) % 256,
                            outcome.args[2] % 256>>

\* C4: check_device_id returns true exactly when both ID reads succeeded and
\* read 0x5449 and 0x3001; it returns false otherwise, also when a read
\* fails, and never raises.
C4_CheckIdentity ==
    /\ checked # "none" => (checked = "true" <=> IdsVerified(trace))
    /\ outcome.fn = "check_device_id"
          => /\ outcome.status = "ok"
             /\ checked # "none"
             /\ outcome.value = (checked = "true")
    /\ (outcome.fn = "__init__" /\ outcome.status = "OSError") => checked = "true"

\* C4 witness: check_device_id returned false because an ID read failed
C4_Witness ==
    /\ outcome.fn = "check_device_id" /\ outcome.status = "ok"
    /\ outcome.value = FALSE /\ Failed(trace)

\* C5: a construction whose identity verification fails (a wrong ID or a
\* failed ID read) ends with the setup error and leaves no handle; a handle
\* exists only after a construction whose verification returned true.
C5_ConstructionNeedsIdentity ==
    /\ (outcome.fn = "__init__" /\ ~IdsVerified(trace))
          => outcome.status = "SetupError" /\ handle = "none"
    /\ (outcome.fn = "__init__" /\ handle = "ready")
          => outcome.status = "ok" /\ IdsVerified(trace) /\ checked = "true"
    /\ call.fn = "__init__" => handle = "none"
    /\ handle = "ready" => regs[126] = 21577 /\ regs[127] = 12289

\* C5 witness: a construction ended with the setup error after reading a
\* wrong device ID
C5_Witness ==
    /\ outcome.fn = "__init__" /\ outcome.status = "SetupError" /\ handle = "none"
    /\ Len(trace) = 2 /\ trace[1].ok /\ trace[2].ok /\ trace[2].word # 12289

\* C6: after a construction that succeeded the writable bits of the
\* configuration register are 0xCC00 (auto range, 800 ms, continuous).
C6_DefaultConfiguration ==
    (outcome.fn = "__init__" /\ outcome.status = "ok")
    => BitAnd(regs[1], 65535 - 480) = 52224

\* C7: after configure(mode, conversion_time, range_auto) ended without an
\* error the writable bits of the configuration register are
\* (0xC000 if range_auto) | (0x0800 if 800 ms) | (mode << 9).
C7_ConfigureOverwrites ==
    (outcome.fn = "configure" /\ outcome.status = "ok")
    => BitAnd(regs[1], 65535 - 480) =
         (IF outcome.args[3] THEN 49152 ELSE 0)
         + (IF outcome.args[2] = 1 THEN 2048 ELSE 0)
         + outcome.args[1] * 512


\* C8: on a sensor that never sets the conversion-ready flag, with every bus
\* transfer succeeding, single_shot never returns a value, ends only with the
\* timeout error and only once more than `timeout` ticks have passed since it
\* took `start`, and every single_shot call does end that way.
C8_NeverReadyTimesOut ==
    /\ [](outcome.fn = "single_shot"
            => outcome.status = "TimeoutError" /\ outcome.late)
    /\ ((call.fn = "single_shot")
          ~> (outcome.fn = "single_shot" /\ outcome.status = "TimeoutError"))

\* C8 witness: single_shot ended with the timeout error after polls that all
\* read the flag clear
C8_Witness ==
    /\ outcome.fn = "single_shot" /\ outcome.status = "TimeoutError"
    /\ \E i \in 1..Len(trace) : IsPoll(trace[i]) /\ trace[i].n = 2
    /\ \A i \in 1..Len(trace) :
          trace[i].ok /\ (IsPoll(trace[i]) => (trace[i].word \div 128) % 2 = 0)

\* C9: a single_shot that returned a value performed exactly these bus
\* transfers, in order: one write of the configuration register whose mode
\* bits are SingleShot, one or more polls of the configuration register the
\* last of which read the conversion-ready bit set, one read of the result
\* register; and it returned 2^exponent * mantissa (hundredths of a lux) of
\* that result.
C9_SingleShotSequence ==
    (outcome.fn = "single_shot" /\ outcome.status = "ok")
    => LET n == Len(trace) IN
       /\ n >= 3
       /\ trace[1].kind = "writeto" /\ trace[1].n = 1
       /\ trace[1].out[1] = 1
       /\ (trace[1].out[2] \div 2) % 4 = 1
       /\ \A i \in 2..(n - 1) : IsPoll(trace[i]) /\ trace[i].ok
       /\ trace[n - 1].n = 1 /\ (trace[n - 1].word \div 128) % 2 = 1
       /\ IsRead(trace[n], 0) /\ trace[n].ok /\ trace[n].n = 1
       /\ outcome.value = (2 ^ (trace[n].word \div 4096)) * (trace[n].word % 4096)

\* C10: single_shot ends with the timeout error only when every bus transfer
\* of the call succeeded and every poll read the conversion-ready bit clear;
\* when a transfer of the call failed it ends with the I/O error.
C10_TimeoutIsNotIoError ==
    outcome.fn = "single_shot"
    => /\ outcome.status = "TimeoutError"
            => /\ ~Failed(trace)
               /\ \A i \in 1..Len(trace) :
                     IsPoll(trace[i]) => (trace[i].word \div 128) % 2 = 0
       /\ Failed(trace) <=> outcome.status = "OSError"

\* C10 witness: single_shot ended with the I/O error of a failed poll
C10_Witness ==
    /\ outcome.fn = "single_shot" /\ outcome.status = "OSError"
    /\ \E i \in 1..Len(trace) : IsPoll(trace[i]) /\ ~trace[i].ok


----------------------------------------------------------------------------
\* the public operations that are one register read, and the register each reads
ReadQueries == {"read_raw", "read_lux", "lux", "is_conversion_ready"}
QueryRegister(fn) == IF fn = "is_conversion_ready" THEN _REG_CONFIG ELSE _REG_RESULT
QueryValue(fn, word) ==
    CASE fn = "read_raw" -> RawFields(word)
      [] fn \in {"read_lux", "lux"} -> Lux(RawFields(word))
      [] fn = "is_conversion_ready" -> ReadyFlag(word)

\* C11: a read_raw, read_lux, lux or is_conversion_ready makes exactly one
\* register-read transfer through _read_register, never a second one; when
\* that transfer fails the call ends with the I/O error and no value, and
\* when it succeeds the value is computed from the word of that transfer.
C11_FailedReadRaises ==
    outcome.fn \in ReadQueries =>
        /\ Len(trace) = 1 /\ trace[1].n = 1
        /\ IsRead(trace[1], QueryRegister(outcome.fn))
        /\ lock # "self"
        /\ IF trace[1].ok
           THEN outcome.status = "ok"
                /\ outcome.value = QueryValue(outcome.fn, trace[1].word)
           ELSE outcome.status = "OSError"

\* a read_lux whose transfer failed after an earlier read left a nonzero
\* word in the buffer
C11_Witness ==
    /\ outcome.fn = "read_lux" /\ outcome.status = "OSError"
    /\ Failed(trace) /\ BufferWord(buffer) # 0


----------------------------------------------------------------------------
PeerInPrimitive == peer.pc \in {"probe", "write", "transfer", "unlock"}

\* C12: with two objects on one bus, the two are never both between lock
\* acquisition and release; whoever is there owns the lock; every transfer of
\* either object was made while it alone held the bus; and a register read
\* returns the word of the reader's own device, transferred in its own
\* transaction.
C12_BusLockSerialises ==
    /\ ~(InPrimitive /\ PeerInPrimitive)
    /\ InPrimitive => lock = "self"
    /\ PeerInPrimitive => lock = "peer"
    /\ \A i \in 1..Len(trace) : trace[i].locked
    /\ peer.held
    /\ (outcome.fn = "_read_register" /\ outcome.status = "ok") =>
          /\ outcome.value = trace[1].word
          /\ outcome.value = BufferWord(buffer)
    /\ (peer.pc = "idle" /\ peer.fn = "_read_register") =>
          /\ peer.result = peer.regs[peer.register]
          /\ peer.result = BufferWord(peer.buffer)

\* the second object waits for the lock, wanting another register, while
\* this one is in the middle of a read
C12_Witness ==
    /\ InFrame("_read_register", "unlock") /\ call.fn = "_read_register"
    /\ peer.pc = "lock" /\ peer.fn = "_write_register"
    /\ peer.register # register


----------------------------------------------------------------------------
(* _lux_to_raw, lux values in hundredths of a lux *)

Encoded == outcome.fn = "_lux_to_raw"
LuxArg == outcome.args[1]
\* 83,865.6 lux = 4095 * 2^11 hundredths, the largest encodable value
LuxMax == MANTISSA_MAX * (2 ^ (EXPONENTS - 1))
FitsAt(c, e) == c \div (2 ^ e) <= MANTISSA_MAX

\* C13: _lux_to_raw returns an exponent in 0..11 and a mantissa in 0..4095
\* for every non-negative lux, and exactly (11, 4095) for every lux above
\* 83,865.6.
C13_EncodeInRange ==
    Encoded =>
        /\ outcome.value[1] \in 0..11
        /\ outcome.value[2] \in 0..4095
        /\ LuxArg > LuxMax => outcome.value = <<11, 4095>>

\* an argument so large that no exponent fits
C13_Witness ==
    Encoded /\ ~FitsAt(LuxArg, 11) /\ outcome.value = <<11, 4095>>

C15_FiftyLuxAsStated ==
    (Encoded /\ LuxArg = 5000) => outcome.value = <<2, 1250>>

\* C15: _lux_to_raw(50) returns exponent 1 and mantissa 2500, the smallest
\* exponent whose mantissa is at most 4095.
C15_FiftyLux ==
    (Encoded /\ LuxArg = 5000) => outcome.value = <<1, 2500>>

C15_Witness == Encoded /\ LuxArg = 5000 /\ outcome.status = "ok"

----------------------------------------------------------------------------
\* C17: every call of a register operation ends, also when another user
\* keeps the bus lock: the operation then ends with an I/O error instead of
\* waiting for the lock forever.
C17_BusyBusEndsCall == (call.fn # "none") ~> (call.fn = "none")


----------------------------------------------------------------------------
SingleShotEnded == outcome.fn = "single_shot"

\* C18 as stated: single_shot never returns a lux value once more than
\* `timeout` has elapsed since it began to wait, also when a late poll finds
\* the conversion-ready flag set.
C18_NoValueAfterTimeout ==
    (SingleShotEnded /\ outcome.status = "ok") => ~outcome.late

\* C18: single_shot goes on waiting only while no more than `timeout` has
\* elapsed: a poll that reads the flag clear after that ends the call with
\* the timeout error, and the timeout error has no other cause; a poll that
\* reads the flag set ends the wait with the result read and its value,
\* whatever time has elapsed.
C18_TimeoutOnlyAfterClearPoll ==
    /\ InFrame("single_shot", "sleep") => now - start <= timeout
    /\ (SingleShotEnded /\ outcome.status = "TimeoutError") =>
          /\ outcome.late
          /\ IsPoll(trace[Len(trace)]) /\ trace[Len(trace)].ok
          /\ ~ReadyFlag(trace[Len(trace)].word)
    /\ (SingleShotEnded /\ outcome.status = "ok") =>
          /\ Len(trace) >= 2
          /\ IsPoll(trace[Len(trace) - 1])
          /\ ReadyFlag(trace[Len(trace) - 1].word)
          /\ IsRead(trace[Len(trace)], _REG_RESULT)

\* a value returned after the budget: the last poll came late and found the
\* flag set
C18_Witness ==
    SingleShotEnded /\ outcome.status = "ok" /\ outcome.late


----------------------------------------------------------------------------
LimitRegister(fn) ==
    IF fn = "set_low_limit" THEN _REG_LOW_LIMIT ELSE _REG_HIGH_LIMIT

\* C19: after a set_low_limit(lux) or set_high_limit(lux) that ended without
\* error, the low-limit (0x02) or high-limit (0x03) register holds
\* (exponent << 12) | mantissa of _lux_to_raw(lux), and the call wrote to no
\* other register.
C19_LimitRegisterWritten ==
    (outcome.fn \in {"set_low_limit", "set_high_limit"}
        /\ outcome.status = "ok") =>
        /\ regs[LimitRegister(outcome.fn)]
              = LimitWord(_lux_to_raw(outcome.args[1]))
        /\ \A i \in 1..Len(trace) :
              trace[i].kind = "writeto" =>
                  trace[i].out[1] = LimitRegister(outcome.fn)


----------------------------------------------------------------------------
Queries == ReadQueries \cup {"check_device_id"}
NoWrite(tr) == \A i \in 1..Len(tr) : tr[i].kind # "writeto" /\ tr[i].out # <<>>
Writable(rs) == [r \in RWRegs |-> BitAnd(rs[r], WritableMask(loopback, r))]

\* C20: read_raw, read_lux, lux, is_conversion_ready and check_device_id
\* make no write transfer and no transfer of _write_register, and no step
\* taken while one of them runs changes the writable bits of the
\* configuration, low-limit or high-limit register; a construction makes a
\* write only after both ID reads succeeded and matched, so one that fails
\* the identity check makes none.
C20_QueriesDoNotWrite ==
    /\ [](/\ (call.fn \in Queries \/ outcome.fn \in Queries) => NoWrite(trace)
          /\ (call.fn = "__init__" /\ ~NoWrite(trace)) => IdsVerified(trace)
          /\ (outcome.fn = "__init__" /\ outcome.status = "SetupError")
                => NoWrite(trace))
    /\ [][call.fn \in Queries => Writable(regs') = Writable(regs)]_vars

\* is_conversion_ready returned True: the device cleared the flag on that
\* read, the writable bits are as they were
C20_Witness ==
    /\ outcome.fn = "is_conversion_ready" /\ outcome.status = "ok"
    /\ outcome.value
    /\ ~ReadyFlag(regs[_REG_CONFIG])

====
